---- MODULE Spec2Model ----
(***************************************************************************)
(* A model of the AMR task-scheduling engine: the FIFO baseline scheduler  *)
(* (src/lib/fifo-scheduler.ts), the objective evaluator and the genetic    *)
(* scheduler (src/lib/task-generator.ts), and the task model               *)
(* (src/lib/models.ts).                                                    *)
(*                                                                         *)
(* Numbers: the source computes distances and fitness in floating point.   *)
(* The model uses fixed point with Scale units per 1.0: a distance is      *)
(* floor(Scale * sqrt(dx^2 + dy^2)).                                       *)
(***************************************************************************)
EXTENDS Integers, Sequences, FiniteSets, TLC

VARIABLES
    tasks,          \* the task list handed to the scheduler (this.tasks)
    \* ---- FIFOScheduler.schedule ----
    tasksCopy,      \* the working copy the passes consume
    result,         \* the output sequence built so far
    lastGroup,      \* the group built by the last pass
    slotTrace,      \* per admission of the last pass: <<type, slotsUsed before, after>>
    passes,         \* number of passes of the outer while loop so far
    fpc,            \* "idle" | "loop" | "done"
    returned,       \* the value schedule() returned (once fpc = "done")
    previous,       \* the value the call of schedule() before this one returned
    calls,          \* number of schedule() calls begun on this scheduler
    \* ---- Simulator: evaluation and replay of the active solution ----
    schedulingMethod, \* "fifo" | "ga"
    activeSolution, \* the ordering the simulation steps through
    metrics,        \* what the two evaluators returned for activeSolution
    amr,            \* the carrier: position and storageSlots
    simulationStep, \* index of the next task of activeSolution (0-based)
    unhandled,      \* executed tasks for which canHandleTask was false just before
    spc,            \* "idle" | "scheduled" | "evaluated" | "simulating" | "finished"
    \* ---- createRandomChromosome, called on its own ----
    shuffledOrder,  \* createRandomChromosome(): shuffledTasks
    flatChromosome, \* the array createRandomChromosome() returned
    cpc,            \* "idle" | "shuffled" | "made"
    \* ---- DataLogger ----
    taskExecutionRecords, \* this.taskExecutionRecords
    generationLogs, \* this.generationLogs.get(sessionId)
    zeroDivisions,  \* divisions logGeneration has made by a denominator of 0
    \* ---- generateRandomTasks ----
    count,          \* generateRandomTasks(count)
    randomStream,   \* the values Math.random() gives, one record per iteration
    drawn,          \* number of iterations begun
    generated,      \* generateRandomTasks(): tasks
    loopIndex,      \* generateRandomTasks(): the for loop's i
    tpc,            \* "idle" | "loop" | "returned"
    \* ---- Simulator.runAlgorithm ----
    closureState,   \* bestSolution, metrics, currentGeneration of the render that made runAlgorithm
    algorithmLogs,  \* DataLogger: the GA entries of this.algorithmLogs
    \* ---- GeneticAlgorithm ----
    params,         \* populationSize, maxGenerations, rates, weights
    heap,           \* chromosome arrays: address -> sequence of references to tasks
    population,     \* this.population: sequence of Individuals
    bestSolution,   \* this.bestSolution (chromosome = Null before run())
    lastBestFitness,
    generationsWithoutImprovement,
    generation,     \* run(): let generation
    g,              \* run(): the for loop's g
    endChunk,       \* run(): const endChunk
    newPopulation,  \* createNewGeneration(): newPopulation
    offspring1,     \* createNewGeneration(): offspring1
    offspring2,     \* createNewGeneration(): offspring2
    pc,             \* position of run()
    \* ---- what the callbacks of a run observed ----
    lastReport,     \* arguments of the last onGenerationComplete call
    reportCount,    \* number of onGenerationComplete calls
    completeCount,  \* number of onComplete calls
    stopSeen,       \* generationsWithoutImprovement reached earlyStopGenerations
    reportsAfterStop, \* onGenerationComplete calls made after stopSeen was set
    crossed,        \* the offspring pair in hand was made by crossover()
    mutated,        \* mutate(offspring1) changed the array of the offspring in hand
    eliteSnapshot,  \* the elites of the generation being built, as they were when selected
    sinceYield      \* generations computed since run() last yielded (or began)

genVars == <<shuffledOrder, flatChromosome, cpc>>
logVars == <<taskExecutionRecords, generationLogs, zeroDivisions>>
taskVars == <<count, randomStream, drawn, generated, loopIndex, tpc>>
runVars == <<closureState, algorithmLogs>>
auxVars == <<genVars, logVars, taskVars, runVars>>
simVars == <<schedulingMethod, activeSolution, metrics, amr, simulationStep, unhandled, spc,
             auxVars>>
fifoVars == <<tasksCopy, result, lastGroup, slotTrace, passes, fpc, returned, previous, calls,
              simVars>>
gaVars == <<params, heap, population, bestSolution, lastBestFitness,
            generationsWithoutImprovement, generation, g, endChunk,
            newPopulation, offspring1, offspring2, pc, lastReport,
            reportCount, completeCount, stopSeen, reportsAfterStop, crossed, mutated,
            eliteSnapshot, sinceYield>>
vars == <<tasks, fifoVars, gaVars>>

(***************************************************************************)
(* Bounds of the model.                                                    *)
(***************************************************************************)
MaxFifoLen == 6        \* longest task list given to FIFOScheduler
MaxCalls == 2          \* most schedule() calls followed on one FIFOScheduler
MaxShuffled == 3       \* longest list of which every order is followed
MaxPopulation == 40    \* largest populationSize of which the elites are followed
ChunkTaskCounts == {15, 16, 20, 21}   \* lengths of the long task lists
MaxGenerations == 16   \* largest maxGenerations
MaxLogged == 5         \* most generations logged in one session
ShortGenerations == 2  \* largest maxGenerations of a run that breeds new orderings
Scale == 1000          \* fixed-point units per 1.0
GaTaskCounts == {1, 2}        \* lengths of the task lists given to GeneticAlgorithm
PopulationSizes == {1, 2, 3}  \* the values of populationSize
TournamentPopulation == 4     \* a populationSize that takes two rounds of tournaments

(***************************************************************************)
(* models.ts: TaskType, Task.                                              *)
(***************************************************************************)
DELIVERY == "DELIVERY"
PICKUP == "PICKUP"
PICKUP_DELIVERY == "PICKUP_DELIVERY"
TaskType == {DELIVERY, PICKUP, PICKUP_DELIVERY}

Null == 0       \* null

\* Positions and processing times of the tasks of a list, by id.  They are
\* spaced at least 2 cells apart on the 12 x 8 area generateRandomTasks uses.
TaskPosition(id) == [x |-> 3 + 2 * ((id * 3) % 5), y |-> 3 + 3 * (id % 3)]
TaskProcessingTime(id) == 3 + ((id * 3) % 8)

Task(id, type) ==
    [id |-> id, type |-> type, position |-> TaskPosition(id),
     processingTime |-> TaskProcessingTime(id)]

\* The task lists of length n with ids 1..n in arrival order.
TaskLists(n) == { [i \in 1..n |-> Task(i, ty[i])] : ty \in [1..n -> TaskType] }

\* the tasks of a sequence as their indices in this.tasks
IndexOf(task) == CHOOSE i \in 1..Len(tasks) : tasks[i] = task
IndexSeq(seq) == [i \in 1..Len(seq) |-> IndexOf(seq[i])]

\* seq is a permutation of base (both sequences without repeated elements)
IsPermutationOf(seq, base) ==
    /\ Len(seq) = Len(base)
    /\ \A i \in 1..Len(base) : \E j \in 1..Len(seq) : seq[j] = base[i]
    /\ \A i, j \in 1..Len(seq) : seq[i] = seq[j] => i = j

Min(a, b) == IF a < b THEN a ELSE b
Max(a, b) == IF a > b THEN a ELSE b

(***************************************************************************)
(* Math.sqrt in fixed point: floor(Scale * sqrt(n)).                       *)
(***************************************************************************)
RECURSIVE SqrtSearch(_, _, _)
SqrtSearch(n, lo, hi) ==
    \* invariant: lo * lo <= n < hi * hi
    IF hi - lo <= 1 THEN lo
    ELSE LET mid == (lo + hi) \div 2
         IN IF mid * mid <= n THEN SqrtSearch(n, mid, hi)
                              ELSE SqrtSearch(n, lo, mid)

\* squared distances on the 12 x 8 task area (and home, one cell off it)
MaxSquare == 13 * 13 + 9 * 9
SqrtTable == [n \in 0..MaxSquare |-> SqrtSearch(n * Scale * Scale, 0, 16 * Scale)]

Distance(p, q) ==
    SqrtTable[(p.x - q.x) * (p.x - q.x) + (p.y - q.y) * (p.y - q.y)]

HomePosition == [x |-> 2, y |-> 2]

(***************************************************************************)
(* FIFOScheduler.calculateMetrics.                                         *)
(***************************************************************************)
RECURSIVE MetricsFrom(_, _, _, _, _)
MetricsFrom(solution, k, currentTime, totalIdleDistance, currentPosition) ==
    IF k > Len(solution)
    THEN [makespan |-> currentTime, idleDistance |-> totalIdleDistance]
    ELSE LET task == solution[k]
             distance == Distance(task.position, currentPosition)
         IN MetricsFrom(solution, k + 1,
                        currentTime + distance + task.processingTime * Scale,
                        IF task.type = DELIVERY
                            THEN totalIdleDistance + distance
                            ELSE totalIdleDistance,
                        task.position)

\* calculateMetrics with the walk begun at (0, 0)
calculateMetricsFromOrigin(solution) == MetricsFrom(solution, 1, 0, 0, [x |-> 0, y |-> 0])

calculateMetrics(solution) == MetricsFrom(solution, 1, 0, 0, HomePosition)

(***************************************************************************)
(* GeneticAlgorithm.calculateFitness.                                      *)
(***************************************************************************)
RECURSIVE FitnessFrom(_, _, _, _, _)
FitnessFrom(chromosome, k, currentTime, totalIdleDistance, currentPosition) ==
    IF k > Len(chromosome)
    THEN [makespan |-> currentTime, idleDistance |-> totalIdleDistance]
    ELSE LET task == chromosome[k]
             distance == Distance(task.position, currentPosition)
             travelled == currentTime + distance
             idle == IF task.type = DELIVERY THEN totalIdleDistance + distance
                                             ELSE totalIdleDistance
         \* the next iteration, its arguments bound as values
         IN CHOOSE fitness \in { FitnessFrom(chromosome, k + 1, time, idleSum, task.position) :
                                    time \in {travelled + task.processingTime * Scale},
                                    idleSum \in {idle} } : TRUE

\* calculateFitness with every leg counted as idle distance, whatever the task
RECURSIVE FitnessFromAllLegs(_, _, _, _, _)
FitnessFromAllLegs(chromosome, k, currentTime, totalIdleDistance, currentPosition) ==
    IF k > Len(chromosome)
    THEN [makespan |-> currentTime, idleDistance |-> totalIdleDistance]
    ELSE FitnessFromAllLegs(chromosome, k + 1,
                            currentTime + Distance(chromosome[k].position, currentPosition)
                                + chromosome[k].processingTime * Scale,
                            totalIdleDistance
                                + Distance(chromosome[k].position, currentPosition),
                            chromosome[k].position)

calculateFitnessAllLegs(chromosome) == FitnessFromAllLegs(chromosome, 1, 0, 0, HomePosition)

calculateFitness(chromosome) == FitnessFrom(chromosome, 1, 0, 0, HomePosition)

(***************************************************************************)
(* FIFOScheduler.schedule.                                                 *)
(***************************************************************************)
\* SlotsAfter with the pickup rule written slotsUsed - 1, without Math.max(0, ...)
SlotsAfterUnclamped(type, slotsUsed) ==
    IF type = DELIVERY THEN slotsUsed + 1
    ELSE IF type = PICKUP THEN slotsUsed - 1
    ELSE slotsUsed

\* slotsUsed after a task of the given type is admitted
SlotsAfter(type, slotsUsed) ==
    IF type = DELIVERY THEN slotsUsed + 1
    ELSE IF type = PICKUP THEN Max(0, slotsUsed - 1)
    ELSE slotsUsed

\* RemoveAt with splice(i + 1, 1): the element after the admitted one is removed
RemoveAtNext(seq, i) ==
    LET at == IF i < Len(seq) THEN i + 1 ELSE i
    IN [k \in 1..(Len(seq) - 1) |-> IF k < at THEN seq[k] ELSE seq[k + 1]]

\* tasksCopy.splice(i, 1), i 1-based
RemoveAt(seq, i) == [k \in 1..(Len(seq) - 1) |-> IF k < i THEN seq[k] ELSE seq[k + 1]]

\* ScanPass that, with slotsUsed >= 4, passes over a DELIVERY or PICKUP_DELIVERY
\* and still admits a PICKUP
RECURSIVE ScanPassPickupFirst(_, _, _, _, _)
ScanPassPickupFirst(copy, i, group, slotsUsed, trace) ==
    IF i > Len(copy)
    THEN [tasksCopy |-> copy, group |-> group, trace |-> trace]
    ELSE LET task == copy[i]
         IN IF (task.type = PICKUP_DELIVERY /\ slotsUsed >= 3)
                 \/ (task.type # PICKUP /\ slotsUsed >= 4)
            THEN ScanPassPickupFirst(copy, i + 1, group, slotsUsed, trace)
            ELSE ScanPassPickupFirst(RemoveAt(copy, i), i, Append(group, task),
                                     SlotsAfter(task.type, slotsUsed),
                                     Append(trace, <<task.type, slotsUsed,
                                                     SlotsAfter(task.type, slotsUsed)>>))

\* ScanPass that closes the group at a PICKUP_DELIVERY met with slotsUsed >= 3
RECURSIVE ScanPassClosing(_, _, _, _, _)
ScanPassClosing(copy, i, group, slotsUsed, trace) ==
    IF i > Len(copy)
    THEN [tasksCopy |-> copy, group |-> group, trace |-> trace]
    ELSE LET task == copy[i]
         IN IF (task.type = PICKUP_DELIVERY /\ slotsUsed >= 3) \/ slotsUsed >= 4
            THEN [tasksCopy |-> copy, group |-> group, trace |-> trace]   \* break
            ELSE ScanPassClosing(RemoveAt(copy, i), i, Append(group, task),
                                 SlotsAfter(task.type, slotsUsed),
                                 Append(trace, <<task.type, slotsUsed,
                                                 SlotsAfter(task.type, slotsUsed)>>))

\* The for loop of one pass, from index i (1-based) of the working copy.
RECURSIVE ScanPass(_, _, _, _, _)
ScanPass(copy, i, group, slotsUsed, trace) ==
    IF i > Len(copy)
    THEN [tasksCopy |-> copy, group |-> group, trace |-> trace]
    ELSE LET task == copy[i]
         IN IF task.type = PICKUP_DELIVERY /\ slotsUsed >= 3
            THEN ScanPass(copy, i + 1, group, slotsUsed, trace)           \* continue
            ELSE IF slotsUsed >= 4
            THEN [tasksCopy |-> copy, group |-> group, trace |-> trace]   \* break
            ELSE ScanPass(RemoveAt(copy, i), i, Append(group, task),
                          SlotsAfter(task.type, slotsUsed),
                          Append(trace, <<task.type, slotsUsed,
                                          SlotsAfter(task.type, slotsUsed)>>))

\* FifoPassOf whose slotsUsed begins at 4 instead of 0
FifoPassOfFullCarrier(copy) == ScanPass(copy, 1, <<>>, 4, <<>>)

\* lines 24-55: const group = [], let slotsUsed = 0, and the for loop
FifoPassOf(copy) == ScanPass(copy, 1, <<>>, 0, <<>>)

\* The whole while loop, as a function of the working copy and the result.
RECURSIVE ScheduleFrom(_, _)
ScheduleFrom(copy, res) ==
    IF Len(copy) = 0 THEN res
    ELSE LET p == FifoPassOf(copy)
         IN IF Len(p.group) = 0 THEN res \o p.group
            ELSE ScheduleFrom(p.tasksCopy, res \o p.group)

schedule(taskList) == ScheduleFrom(taskList, <<>>)

\* this.tasks after a pass that left the working copy as given, were the
\* working copy this.tasks itself
StoredTasksAliased(stored, working) == working

\* this.tasks after a pass: the splices are made on the copy of line 17
StoredTasks(stored, working) == stored

\* schedule() as the Simulator runs it: one pass of the while loop (lines 23-62)
FifoPass ==
    /\ fpc = "loop"
    /\ Len(tasksCopy) > 0
    /\ LET p == FifoPassOf(tasksCopy)
       IN /\ tasksCopy' = p.tasksCopy
          /\ lastGroup' = p.group
          /\ slotTrace' = p.trace
          /\ result' = result \o p.group
          /\ passes' = passes + 1
          /\ fpc' = IF Len(p.group) = 0 THEN "done" ELSE "loop"      \* line 61
          /\ returned' = IF Len(p.group) = 0 THEN result \o p.group ELSE returned
          /\ tasks' = StoredTasks(tasks, p.tasksCopy)
    /\ UNCHANGED <<previous, calls, simVars, gaVars>>

\* the while test fails: return result (line 64)
FifoReturn ==
    /\ fpc = "loop"
    /\ Len(tasksCopy) = 0
    /\ fpc' = "done"
    /\ returned' = result
    /\ UNCHANGED <<tasks, tasksCopy, result, lastGroup, slotTrace, passes, previous, calls,
                   simVars, gaVars>>

\* schedule() is called once more on the same FIFOScheduler (lines 17-20)
ScheduleAgain ==
    /\ fpc = "done"
    /\ calls < MaxCalls
    /\ previous' = returned
    /\ calls' = calls + 1
    /\ tasksCopy' = tasks
    /\ result' = <<>>
    /\ lastGroup' = <<>>
    /\ slotTrace' = <<>>
    /\ passes' = 0
    /\ fpc' = "loop"
    /\ UNCHANGED <<tasks, returned, simVars, gaVars>>

(***************************************************************************)
(* models.ts: AMR.                                                         *)
(***************************************************************************)
Undefined == "undefined"        \* a property an object does not have
EmptySlot == [isOccupied |-> FALSE, taskId |-> Null, taskType |-> Undefined]

\* new AMR()
NewAMR == [position |-> HomePosition, storageSlots |-> [i \in 1..4 |-> EmptySlot]]

occupiedSlots(a) ==
    Cardinality({ i \in 1..Len(a.storageSlots) : a.storageSlots[i].isOccupied })

canHandleTask(a, task) ==
    IF task.type \in {DELIVERY, PICKUP} THEN occupiedSlots(a) < 4
    ELSE IF task.type = PICKUP_DELIVERY THEN occupiedSlots(a) < 3
    ELSE FALSE

\* the first slot that is (is not) occupied, 0 when the loop finds none
FirstSlot(slots, occupied) ==
    IF \E i \in 1..Len(slots) : slots[i].isOccupied = occupied
    THEN CHOOSE i \in 1..Len(slots) :
           /\ slots[i].isOccupied = occupied
           /\ \A j \in 1..(i - 1) : slots[j].isOccupied # occupied
    ELSE 0

\* storageSlots after the "occupy the first empty slot" loop
Occupy(slots, task) ==
    IF FirstSlot(slots, FALSE) = 0 THEN slots
    ELSE [slots EXCEPT ![FirstSlot(slots, FALSE)] =
            [isOccupied |-> TRUE, taskId |-> task.id, taskType |-> task.type]]

\* Release that only clears isOccupied, leaving taskId and taskType in the slot
ReleaseFlagOnly(slots) ==
    IF FirstSlot(slots, TRUE) = 0 THEN slots
    ELSE [slots EXCEPT ![FirstSlot(slots, TRUE)].isOccupied = FALSE]

\* storageSlots after the "free the first occupied slot" loop
Release(slots) ==
    IF FirstSlot(slots, TRUE) = 0 THEN slots
    ELSE [slots EXCEPT ![FirstSlot(slots, TRUE)] = EmptySlot]

\* executeTask whose PICKUP_DELIVERY case occupies a slot whether or not one was freed
executeTaskAlwaysDelivers(a, task) ==
    [position |-> task.position,
     storageSlots |->
        IF task.type = DELIVERY THEN Occupy(a.storageSlots, task)
        ELSE IF task.type = PICKUP THEN Release(a.storageSlots)
        ELSE Occupy(Release(a.storageSlots), task)]

executeTask(a, task) ==
    [position |-> task.position,
     storageSlots |->
        IF task.type = DELIVERY THEN Occupy(a.storageSlots, task)
        ELSE IF task.type = PICKUP THEN Release(a.storageSlots)
        ELSE IF FirstSlot(a.storageSlots, TRUE) # 0          \* pickupDone
             THEN Occupy(Release(a.storageSlots), task)
             ELSE a.storageSlots]

(***************************************************************************)
(* GeneticAlgorithm: constructor.                                          *)
(***************************************************************************)
earlyStopThreshold == Scale \div 1000      \* 0.001

\* processingChunkSize left at its default whatever the number of tasks
processingChunkSizeDefault(n) == 5

processingChunkSize(n) == IF n > 20 THEN 3 ELSE IF n > 15 THEN 4 ELSE 5
earlyStopGenerations(n) == IF n > 20 THEN 5 ELSE IF n > 15 THEN 8 ELSE 10

NoIndividual == [chromosome |-> Null, fitness |-> 0, makespan |-> 0, idleDistance |-> 0]
NoReport == [generation |-> -1, bestSolution |-> <<>>, fitness |-> 0,
             makespan |-> 0, idleDistance |-> 0]

\* Simulator.generateTasks: setBestSolution([]), setCurrentGeneration(0),
\* setMetrics({ makespan: 0, idleDistance: 0, fitness: 0 })
StateAfterGenerateTasks ==
    [bestSolution |-> <<>>, currentGeneration |-> 0,
     metrics |-> [makespan |-> 0, idleDistance |-> 0, fitness |-> 0]]

\* Math.random(), in thousandths: a value of [0, 1)
RandomDraws == {0, 999}

(***************************************************************************)
(* Chromosome arrays live in a heap, so that two Individuals made by       *)
(* { ...individual } share one array.  Addresses are renumbered in the     *)
(* order the references are met, and unreferenced arrays are dropped.      *)
(***************************************************************************)
Refs(pop, newPop, o1, o2, best) ==
    [i \in 1..Len(pop) |-> pop[i].chromosome]
        \o [i \in 1..Len(newPop) |-> newPop[i].chromosome]
        \o <<o1.chromosome, o2.chromosome, best.chromosome>>

FirstAt(refs, a) == CHOOSE k \in 1..Len(refs) : refs[k] = a /\ \A j \in 1..(k - 1) : refs[j] # a

Renamed(refs, a) ==
    IF a = Null THEN Null
    ELSE Cardinality({ refs[j] : j \in 1..FirstAt(refs, a) } \ {Null})

Moved(refs, ind) == [ind EXCEPT !.chromosome = Renamed(refs, ind.chromosome)]

\* the arguments are bound once each, as values
Store(h, pop, newPop, o1, o2, best) ==
    \E s \in {[h |-> h, pop |-> pop, newPop |-> newPop, o1 |-> o1, o2 |-> o2, best |-> best]} :
    \E refs \in {Refs(s.pop, s.newPop, s.o1, s.o2, s.best)} :
    \E live \in {{ refs[j] : j \in 1..Len(refs) } \ {Null}} :
       /\ heap' = [n \in 1..Cardinality(live) |->
                      s.h[CHOOSE a \in live : Renamed(refs, a) = n]]
       /\ population' = [i \in 1..Len(s.pop) |-> Moved(refs, s.pop[i])]
       /\ newPopulation' = [i \in 1..Len(s.newPop) |-> Moved(refs, s.newPop[i])]
       /\ offspring1' = Moved(refs, s.o1)
       /\ offspring2' = Moved(refs, s.o2)
       /\ bestSolution' = Moved(refs, s.best)

(***************************************************************************)
(* GeneticAlgorithm: createRandomChromosome.                               *)
(***************************************************************************)
\* [...this.tasks].sort(() => Math.random() - 0.5): some order of the tasks
\* (of a list longer than MaxShuffled, the given and the reversed order only)
Shuffles(taskList) ==
    IF Len(taskList) <= MaxShuffled
    THEN { [i \in 1..Len(taskList) |-> taskList[s[i]]] :
             s \in { f \in [1..Len(taskList) -> 1..Len(taskList)] :
                       \A i, j \in 1..Len(taskList) : f[i] = f[j] => i = j } }
    ELSE { taskList, [i \in 1..Len(taskList) |-> taskList[Len(taskList) + 1 - i]] }

RECURSIVE Flat(_)
Flat(groups) == IF Len(groups) = 0 THEN <<>> ELSE Head(groups) \o Flat(Tail(groups))

RECURSIVE GroupWalk(_, _, _, _, _)
GroupWalk(shuffledTasks, k, taskGroups, currentGroup, slotsUsed) ==
    IF k > Len(shuffledTasks)
    THEN Flat(IF Len(currentGroup) > 0 THEN Append(taskGroups, currentGroup)
                                       ELSE taskGroups)
    ELSE LET task == shuffledTasks[k]
             newGroup == (task.type = PICKUP_DELIVERY /\ slotsUsed >= 3) \/ slotsUsed >= 4
             groups == IF newGroup THEN Append(taskGroups, currentGroup) ELSE taskGroups
             current == IF newGroup THEN <<>> ELSE currentGroup
             used == IF newGroup THEN 0 ELSE slotsUsed
         \* the next iteration, its arguments bound as values
         IN CHOOSE flat \in { GroupWalk(shuffledTasks, k + 1, gs, cg, su) :
                                 gs \in {groups}, cg \in {Append(current, task)},
                                 su \in {SlotsAfter(task.type, used)} } : TRUE

createRandomChromosome(shuffledTasks) == GroupWalk(shuffledTasks, 1, <<>>, <<>>, 0)

(***************************************************************************)
(* GeneticAlgorithm: evaluatePopulation, findBestIndividual.               *)
(***************************************************************************)
\* a chromosome array holds references to the Tasks of this.tasks: the heap
\* keeps a task as its index in tasks
TasksOf(array) == [i \in 1..Len(array) |-> tasks[array[i]]]

Evaluated(ind, h) ==
    LET m == calculateFitness(TasksOf(h[ind.chromosome]))
    IN [chromosome |-> ind.chromosome,
        makespan |-> m.makespan,
        idleDistance |-> m.idleDistance,
        fitness |-> params.makeSpanWeight * m.makespan
                        + params.idleDistanceWeight * m.idleDistance]

evaluatePopulation(pop, h) == [i \in 1..Len(pop) |-> Evaluated(pop[i], h)]

\* reduce((best, current) => !best || current.fitness < best.fitness ? current : best)
RECURSIVE BestFrom(_, _, _)
BestFrom(pop, k, best) ==
    IF k > Len(pop) THEN best
    ELSE BestFrom(pop, k + 1,
                  IF best.chromosome = Null \/ pop[k].fitness < best.fitness
                      THEN pop[k] ELSE best)

findBestIndividual(pop) == BestFrom(pop, 1, NoIndividual)

(***************************************************************************)
(* GeneticAlgorithm: createNewGeneration, the elites.                      *)
(***************************************************************************)
eliteCount == Max(1, params.populationSize \div 10)

\* [...this.population].sort((a, b) => a.fitness - b.fitness): a stable sort
SortRank(pop, i) ==
    1 + Cardinality({ j \in 1..Len(pop) :
                        \/ pop[j].fitness < pop[i].fitness
                        \/ pop[j].fitness = pop[i].fitness /\ j < i })

sortedPopulation(pop) ==
    [r \in 1..Len(pop) |-> pop[CHOOSE i \in 1..Len(pop) : SortRank(pop, i) = r]]

Elites(pop) == [i \in 1..eliteCount |-> sortedPopulation(pop)[i]]

\* the order of tasks and the fitness of each elite at the time it is selected
ElitesSelected(pop, h) ==
    [i \in 1..eliteCount |-> [chromosome |-> h[Elites(pop)[i].chromosome],
                              fitness |-> Elites(pop)[i].fitness]]

(***************************************************************************)
(* GeneticAlgorithm: tournamentSelection.                                  *)
(***************************************************************************)
tournamentSize == 3

RECURSIVE TournamentFrom(_, _, _, _)
TournamentFrom(pop, picks, i, best) ==
    IF i > tournamentSize THEN best
    ELSE LET individual == pop[picks[i]]
         IN TournamentFrom(pop, picks, i + 1,
                           IF best.chromosome = Null \/ individual.fitness < best.fitness
                               THEN individual ELSE best)

\* every Individual some sequence of random indices makes tournamentSelection return
tournamentSelection(pop) ==
    { TournamentFrom(pop, picks, 1, NoIndividual) :
        picks \in [1..tournamentSize -> 1..Len(pop)] }

(***************************************************************************)
(* GeneticAlgorithm: crossover (PMX), fillRemainingPositions.              *)
(* Indices are 0-based as in the source; arrays are 1-based.               *)
(***************************************************************************)
NullTask == 0                   \* an array element that is null

IdOf(ref) == tasks[ref].id

RECURSIVE FindUnused(_, _, _)
FindUnused(parent, usedTasks, j) ==
    IF IdOf(parent[j + 1]) \in usedTasks
        THEN FindUnused(parent, usedTasks, (j + 1) % Len(parent))
        ELSE j

RECURSIVE FillFrom(_, _, _, _, _, _)
FillFrom(parent, offspring, i, usedTasks, point1, point2) ==
    IF i >= Len(parent) THEN offspring
    ELSE IF i < point1 \/ i > point2
    THEN LET j == FindUnused(parent, usedTasks, i)
         IN FillFrom(parent, [offspring EXCEPT ![i + 1] = parent[j + 1]], i + 1,
                     usedTasks \cup {IdOf(parent[j + 1])}, point1, point2)
    ELSE FillFrom(parent, offspring, i + 1, usedTasks, point1, point2)

\* fillRemainingPositions that copies parent[i] without looking at usedTasks
fillRemainingPositionsUnchecked(parent, offspring, point1, point2) ==
    [i \in 1..Len(parent) |->
        IF i - 1 < point1 \/ i - 1 > point2 THEN parent[i] ELSE offspring[i]]

fillRemainingPositions(parent, offspring, point1, point2) ==
    FillFrom(parent, offspring, 0,
             { IdOf(offspring[i + 1]) : i \in { k \in point1..point2 : offspring[k + 1] # NullTask } },
             point1, point2)

\* the mapping section of one offspring: the other parent's [point1, point2]
MappingSection(other, point1, point2) ==
    [i \in 1..Len(other) |-> IF point1 <= i - 1 /\ i - 1 <= point2 THEN other[i] ELSE NullTask]

\* the two offspring arrays of crossover(parent1, parent2) for given points
crossover(chromosome1, chromosome2, point1, point2) ==
    << fillRemainingPositions(chromosome1, MappingSection(chromosome2, point1, point2),
                              point1, point2),
       fillRemainingPositions(chromosome2, MappingSection(chromosome1, point1, point2),
                              point1, point2) >>

\* point1 = floor(random * (length - 1)), point2 = point1 + floor(random * (length - point1))
CutPoints(length) ==
    { <<p1, p2>> \in (0..Max(length - 2, 0)) \X (0..(length - 1)) : p1 <= p2 }

(***************************************************************************)
(* GeneticAlgorithm: mutate.  The array is changed in place.               *)
(***************************************************************************)
SwapMutation(chromosome, index1, index2) ==
    [chromosome EXCEPT ![index1 + 1] = chromosome[index2 + 1],
                       ![index2 + 1] = chromosome[index1 + 1]]

InversionMutation(chromosome, point1, point2) ==
    [i \in 1..Len(chromosome) |->
        IF point1 <= i - 1 /\ i - 1 <= point2
            THEN chromosome[point1 + point2 + 2 - i]
            ELSE chromosome[i]]

\* the arrays a mutate() call that passes the rate test can leave behind
Mutated(chromosome) ==
    LET length == Len(chromosome)
    IN UNION { IF r < 500
               THEN { SwapMutation(chromosome, ix[1], ix[2]) :
                        ix \in (0..(length - 1)) \X (0..(length - 1)) }
               ELSE { InversionMutation(chromosome, pt[1], pt[2]) :
                        pt \in CutPoints(length) }
             : r \in RandomDraws }

\* the heaps a mutate(individual) call can leave behind
mutate(individual, h) ==
    UNION { IF r > params.mutationRate
            THEN {h}
            ELSE { [h EXCEPT ![individual.chromosome] = c] :
                     c \in Mutated(h[individual.chromosome]) }
          : r \in RandomDraws }

(***************************************************************************)
(* The callbacks.                                                          *)
(***************************************************************************)
\* this.onGenerationComplete(gen, best.chromosome, best.fitness, ...): the
\* receiver copies the array it is handed ([...best]) during the call
onGenerationComplete(gen, best, h) ==
    /\ lastReport' = [generation |-> gen, bestSolution |-> TasksOf(h[best.chromosome]),
                      fitness |-> best.fitness, makespan |-> best.makespan,
                      idleDistance |-> best.idleDistance]
    /\ reportCount' = reportCount + 1
    /\ reportsAfterStop' = IF stopSeen THEN reportsAfterStop + 1 ELSE reportsAfterStop

\* DataLogger.logAlgorithmResult(sessionId, algorithm, data): the entry pushed
logAlgorithmResult(algorithm, data) ==
    [algorithm |-> algorithm, solution |-> data.solution, makespan |-> data.makespan,
     idleDistance |-> data.idleDistance, fitness |-> data.fitness,
     generations |-> data.generations]

\* Simulator.runAlgorithm, onComplete: bestSolution, metrics and
\* currentGeneration are the constants of the render in which runAlgorithm was
\* made; the setters onGenerationComplete calls do not change them
onComplete ==
    /\ algorithmLogs' = Append(algorithmLogs,
                               logAlgorithmResult("GA",
                                   [solution |-> closureState.bestSolution,
                                    makespan |-> closureState.metrics.makespan,
                                    idleDistance |-> closureState.metrics.idleDistance,
                                    fitness |-> closureState.metrics.fitness,
                                    generations |-> closureState.currentGeneration]))
    /\ UNCHANGED <<tasksCopy, result, lastGroup, slotTrace, passes, fpc, returned, previous,
                   calls, schedulingMethod, activeSolution, metrics, amr, simulationStep,
                   unhandled, spc, genVars, logVars, taskVars, closureState>>

(***************************************************************************)
(* GeneticAlgorithm.run, lines 131-154: the initial population and the     *)
(* report of generation 0.                                                 *)
(***************************************************************************)
Initialize ==
    /\ pc = "start"
    /\ \E shuffled \in [1..params.populationSize -> Shuffles(tasks)] :
       \E h \in {[i \in 1..params.populationSize |->
                     IndexSeq(createRandomChromosome(shuffled[i]))]} :
       \E pop \in {evaluatePopulation(
                       [i \in 1..params.populationSize |->
                          [chromosome |-> i, fitness |-> 0, makespan |-> 0, idleDistance |-> 0]],
                       h)} :
       \E initialBest \in {findBestIndividual(pop)} :
            /\ initialBest.chromosome # Null
            /\ Store(h, pop, <<>>, NoIndividual, NoIndividual, initialBest)
            /\ lastBestFitness' = initialBest.fitness
            /\ onGenerationComplete(0, initialBest, h)
    /\ generation' = 0
    /\ pc' = "loop"
    /\ UNCHANGED <<tasks, fifoVars, params, generationsWithoutImprovement, g, endChunk,
                   completeCount, stopSeen, crossed, mutated>>
    /\ UNCHANGED <<eliteSnapshot, sinceYield>>

\* run, lines 131-139, with an empty population: findBestIndividual returns
\* null, and reading initialBest.fitness throws a TypeError that rejects the
\* promise run() returned
InitializeThrows ==
    /\ pc = "start"
    /\ findBestIndividual([i \in 1..params.populationSize |-> NoIndividual]).chromosome = Null
    /\ population' = <<>>
    /\ pc' = "error"
    /\ UNCHANGED <<tasks, fifoVars, params, heap, bestSolution, lastBestFitness,
                   generationsWithoutImprovement, generation, g, endChunk, newPopulation,
                   offspring1, offspring2, lastReport, reportCount, completeCount,
                   stopSeen, reportsAfterStop, crossed, mutated, eliteSnapshot, sinceYield>>

\* ChunkStart with endChunk = generation + processingChunkSize, without Math.min
ChunkStartUncapped ==
    /\ pc = "loop"
    /\ generation < params.maxGenerations
    /\ endChunk' = generation + processingChunkSize(Len(tasks))
    /\ g' = generation
    /\ pc' = "for"
    /\ UNCHANGED <<tasks, fifoVars, params, heap, population, bestSolution, lastBestFitness,
                   generationsWithoutImprovement, generation, newPopulation, offspring1,
                   offspring2, lastReport, reportCount, completeCount,
                   stopSeen, reportsAfterStop, crossed, mutated>>
    /\ UNCHANGED <<eliteSnapshot, sinceYield>>

\* line 158-160: the while test holds; a chunk begins
ChunkStart ==
    /\ pc = "loop"
    /\ generation < params.maxGenerations
    /\ endChunk' = Min(generation + processingChunkSize(Len(tasks)), params.maxGenerations)
    /\ g' = generation
    /\ pc' = "for"
    /\ UNCHANGED <<tasks, fifoVars, params, heap, population, bestSolution, lastBestFitness,
                   generationsWithoutImprovement, generation, newPopulation, offspring1,
                   offspring2, lastReport, reportCount, completeCount,
                   stopSeen, reportsAfterStop, crossed, mutated>>
    /\ UNCHANGED <<eliteSnapshot, sinceYield>>

\* createNewGeneration, lines 334-341: the elites
BeginGeneration ==
    /\ pc = "for"
    /\ g < endChunk
    /\ Store(heap, population, Elites(population), NoIndividual, NoIndividual, bestSolution)
    /\ pc' = "fill"
    /\ UNCHANGED <<tasks, fifoVars, params, lastBestFitness, generationsWithoutImprovement,
                   generation, g, endChunk, lastReport, reportCount,
                   completeCount, stopSeen, reportsAfterStop, crossed, mutated>>
    /\ eliteSnapshot' = ElitesSelected(population, heap)
    /\ UNCHANGED sinceYield

\* createNewGeneration, lines 344-356: two tournaments, then crossover or copies
SelectParents ==
    /\ pc = "fill"
    /\ Len(newPopulation) < params.populationSize
    /\ \E parent1 \in tournamentSelection(population),
          parent2 \in tournamentSelection(population),
          r \in RandomDraws :
         IF r < params.crossoverRate
         THEN \E pt \in CutPoints(Len(heap[parent1.chromosome])) :
              \E kids \in {crossover(heap[parent1.chromosome], heap[parent2.chromosome],
                                      pt[1], pt[2])} :
                   /\ Store(heap \o kids, population, newPopulation,
                            [NoIndividual EXCEPT !.chromosome = Len(heap) + 1],
                            [NoIndividual EXCEPT !.chromosome = Len(heap) + 2],
                            bestSolution)
                   /\ crossed' = TRUE
         ELSE /\ Store(heap, population, newPopulation, parent1, parent2, bestSolution)
              /\ crossed' = FALSE
    /\ pc' = "mutate1"
    /\ UNCHANGED <<tasks, fifoVars, params, lastBestFitness, generationsWithoutImprovement,
                   generation, g, endChunk, lastReport, reportCount,
                   completeCount, stopSeen, reportsAfterStop, mutated>>
    /\ UNCHANGED <<eliteSnapshot, sinceYield>>

\* createNewGeneration, line 359: this.mutate(offspring1)
MutateFirst ==
    /\ pc = "mutate1"
    /\ \E h \in mutate(offspring1, heap) :
         /\ Store(h, population, newPopulation, offspring1, offspring2, bestSolution)
         /\ mutated' = (h # heap)
    /\ pc' = "mutate2"
    /\ UNCHANGED <<tasks, fifoVars, params, lastBestFitness, generationsWithoutImprovement,
                   generation, g, endChunk, lastReport, reportCount,
                   completeCount, stopSeen, reportsAfterStop, crossed>>
    /\ UNCHANGED <<eliteSnapshot, sinceYield>>

\* PushSecond without the length test of line 364
PushSecondUnchecked(newPop, offspring) == Append(newPop, offspring)

\* lines 364-366: offspring2 is pushed only while the population is not full
PushSecond(newPop, offspring) ==
    IF Len(newPop) < params.populationSize THEN Append(newPop, offspring) ELSE newPop

\* createNewGeneration, lines 360-366: this.mutate(offspring2), then the pushes
MutateSecond ==
    /\ pc = "mutate2"
    /\ \E h \in mutate(offspring2, heap) :
       \E one \in {Append(newPopulation, offspring1)} :
       \E both \in {PushSecond(one, offspring2)} :
            /\ Store(h, population, both, NoIndividual, NoIndividual, bestSolution)
    /\ crossed' = FALSE
    /\ mutated' = FALSE
    /\ pc' = "fill"
    /\ UNCHANGED <<tasks, fifoVars, params, lastBestFitness, generationsWithoutImprovement,
                   generation, g, endChunk, lastReport, reportCount,
                   completeCount, stopSeen, reportsAfterStop>>
    /\ UNCHANGED <<eliteSnapshot, sinceYield>>

\* KeptBest that always takes the best of the generation
KeptBestOfGeneration(best, bestInGeneration) == bestInGeneration

\* the bestSolution run() keeps after a generation (lines 187-190)
KeptBest(best, bestInGeneration) ==
    IF best.chromosome = Null \/ bestInGeneration.fitness < best.fitness
        THEN bestInGeneration ELSE best

\* run, lines 167-208: the new population replaces the old one, is evaluated
\* and reported; then the early-stop test
FinishGeneration ==
    /\ pc = "fill"
    /\ Len(newPopulation) >= params.populationSize
    /\ \E pop \in {evaluatePopulation(newPopulation, heap)} :
       \E bestInGeneration \in {findBestIndividual(pop)} :
       \E improved \in {lastBestFitness - bestInGeneration.fitness > earlyStopThreshold} :
       \E without \in {IF improved THEN 0 ELSE generationsWithoutImprovement + 1} :
       \E best \in {KeptBest(bestSolution, bestInGeneration)} :
       \E stop \in {without >= earlyStopGenerations(Len(tasks))} :
          /\ Store(heap, pop, <<>>, NoIndividual, NoIndividual, best)
          /\ lastBestFitness' = IF improved THEN bestInGeneration.fitness ELSE lastBestFitness
          /\ generationsWithoutImprovement' = without
          /\ onGenerationComplete(g + 1, best, heap)
          /\ stopSeen' = (stopSeen \/ stop)
          /\ IF stop
             THEN /\ generation' = params.maxGenerations     \* "Force exit"
                  /\ g' = g
                  /\ pc' = "chunkEnd"                        \* break
             ELSE /\ generation' = generation
                  /\ g' = g + 1
                  /\ pc' = IF g + 1 < endChunk THEN "for" ELSE "chunkEnd"
    /\ UNCHANGED <<tasks, fifoVars, params, endChunk, completeCount, crossed, mutated>>
    /\ eliteSnapshot' = <<>>
    /\ sinceYield' = sinceYield + 1

\* ChunkEnd that also calls onComplete when the chunk ended on the early stop
ChunkEndSignalling ==
    /\ pc = "chunkEnd"
    /\ generation' = endChunk
    /\ g' = 0
    /\ endChunk' = 0
    /\ pc' = "yield"
    /\ completeCount' = IF generation = params.maxGenerations /\ stopSeen
                            THEN completeCount + 1 ELSE completeCount
    /\ IF generation = params.maxGenerations /\ stopSeen
          THEN onComplete ELSE UNCHANGED fifoVars
    /\ UNCHANGED <<tasks, params, heap, population, bestSolution, lastBestFitness,
                   generationsWithoutImprovement, newPopulation, offspring1, offspring2,
                   lastReport, reportCount, stopSeen, reportsAfterStop, crossed, mutated>>
    /\ sinceYield' = 0           \* the suspension point
    /\ UNCHANGED eliteSnapshot

\* run, lines 212-215: the generation counter, then the yield to the host
ChunkEnd ==
    /\ pc = "chunkEnd"
    /\ generation' = endChunk
    /\ g' = 0
    /\ endChunk' = 0
    /\ pc' = "yield"
    /\ UNCHANGED <<tasks, fifoVars, params, heap, population, bestSolution, lastBestFitness,
                   generationsWithoutImprovement, newPopulation, offspring1, offspring2,
                   lastReport, reportCount, completeCount, stopSeen,
                   reportsAfterStop, crossed, mutated>>
    /\ sinceYield' = 0           \* the suspension point
    /\ UNCHANGED eliteSnapshot

\* the timer of setTimeout(resolve, 0) fires and run() resumes at the while test
Resume ==
    /\ pc = "yield"
    /\ pc' = "loop"
    /\ UNCHANGED <<tasks, fifoVars, params, heap, population, bestSolution, lastBestFitness,
                   generationsWithoutImprovement, generation, g, endChunk, newPopulation,
                   offspring1, offspring2, lastReport, reportCount,
                   completeCount, stopSeen, reportsAfterStop, crossed, mutated>>
    /\ UNCHANGED <<eliteSnapshot, sinceYield>>

\* run, lines 218-221: the while test fails; this.onComplete()
Complete ==
    /\ pc = "loop"
    /\ ~(generation < params.maxGenerations)
    /\ completeCount' = completeCount + 1
    /\ onComplete
    /\ pc' = "done"
    /\ UNCHANGED <<tasks, params, heap, population, bestSolution, lastBestFitness,
                   generationsWithoutImprovement, generation, g, endChunk, newPopulation,
                   offspring1, offspring2, lastReport, reportCount,
                   stopSeen, reportsAfterStop, crossed, mutated>>
    /\ UNCHANGED <<eliteSnapshot, sinceYield>>

(***************************************************************************)
(* The runs of the genetic scheduler.                                      *)
(***************************************************************************)
\* the parameters the Simulator starts with, and the bounded ones
Params ==
    [populationSize : PopulationSizes,
     maxGenerations : 1..MaxGenerations,
     crossoverRate : {800},
     mutationRate : {10},
     makeSpanWeight : {1},
     idleDistanceWeight : {1}]

NoMetrics == [makespan |-> -1, idleDistance |-> -1]

\* the components followed on their own, before they are called
AuxIdle ==
    /\ shuffledOrder = <<>>
    /\ flatChromosome = <<>>
    /\ cpc = "idle"
    /\ taskExecutionRecords = <<>>
    /\ generationLogs = <<>>
    /\ zeroDivisions = 0
    /\ count = 0
    /\ randomStream = <<>>
    /\ drawn = 0
    /\ generated = <<>>
    /\ loopIndex = 0
    /\ tpc = "idle"
    /\ closureState = StateAfterGenerateTasks
    /\ algorithmLogs = <<>>

\* the Simulator before a solution is made active
SimIdle ==
    /\ schedulingMethod = "fifo"
    /\ activeSolution = <<>>
    /\ metrics = [fifo |-> NoMetrics, ga |-> NoMetrics]
    /\ amr = NewAMR
    /\ simulationStep = 0
    /\ unhandled = 0
    /\ spc = "idle"
    /\ AuxIdle

FifoIdle ==
    /\ tasksCopy = <<>>
    /\ result = <<>>
    /\ lastGroup = <<>>
    /\ slotTrace = <<>>
    /\ passes = 0
    /\ fpc = "idle"
    /\ returned = <<>>
    /\ previous = <<>>
    /\ calls = 0
    /\ SimIdle

\* A run is followed for up to MaxGenerations generations when it cannot breed
\* a new ordering (one task, or a population of one, which is all elite), and
\* for up to ShortGenerations otherwise.
Breeds(taskList, p) == Len(taskList) > 1 /\ p.populationSize > 1

Init ==
    /\ \E n \in GaTaskCounts : tasks \in TaskLists(n)
    /\ params \in Params
    /\ Breeds(tasks, params) => params.maxGenerations <= ShortGenerations
    /\ FifoIdle
    /\ heap = <<>>
    /\ population = <<>>
    /\ bestSolution = NoIndividual
    /\ lastBestFitness = -1          \* Number.POSITIVE_INFINITY; set before it is read
    /\ generationsWithoutImprovement = 0
    /\ generation = 0
    /\ g = 0
    /\ endChunk = 0
    /\ newPopulation = <<>>
    /\ offspring1 = NoIndividual
    /\ offspring2 = NoIndividual
    /\ pc = "start"
    /\ lastReport = NoReport
    /\ reportCount = 0
    /\ completeCount = 0
    /\ stopSeen = FALSE
    /\ reportsAfterStop = 0
    /\ crossed = FALSE
    /\ mutated = FALSE
    /\ eliteSnapshot = <<>>
    /\ sinceYield = 0

GaIdle ==
    /\ params = [populationSize |-> 0, maxGenerations |-> 0, crossoverRate |-> 0,
                 mutationRate |-> 0, makeSpanWeight |-> 0, idleDistanceWeight |-> 0]
    /\ heap = <<>>
    /\ population = <<>>
    /\ bestSolution = NoIndividual
    /\ lastBestFitness = -1
    /\ generationsWithoutImprovement = 0
    /\ generation = 0
    /\ g = 0
    /\ endChunk = 0
    /\ newPopulation = <<>>
    /\ offspring1 = NoIndividual
    /\ offspring2 = NoIndividual
    /\ pc = "idle"
    /\ lastReport = NoReport
    /\ reportCount = 0
    /\ completeCount = 0
    /\ stopSeen = FALSE
    /\ reportsAfterStop = 0
    /\ crossed = FALSE
    /\ mutated = FALSE
    /\ eliteSnapshot = <<>>
    /\ sinceYield = 0

Next ==
    \/ Initialize
    \/ ChunkStart
    \/ BeginGeneration
    \/ SelectParents
    \/ MutateFirst
    \/ MutateSecond
    \/ FinishGeneration
    \/ ChunkEnd
    \/ Resume
    \/ Complete

Spec == Init /\ [][Next]_vars

(***************************************************************************)
(* The runs of the FIFO scheduler: new FIFOScheduler({ tasks }).schedule() *)
(***************************************************************************)
InitFIFO ==
    /\ \E n \in 0..MaxFifoLen : tasks \in TaskLists(n)
    /\ tasksCopy = tasks           \* line 17: [...this.tasks]
    /\ result = <<>>
    /\ lastGroup = <<>>
    /\ slotTrace = <<>>
    /\ passes = 0
    /\ fpc = "loop"
    /\ returned = <<>>
    /\ previous = <<>>
    /\ calls = 1
    /\ SimIdle
    /\ GaIdle

NextFIFO ==
    \/ FifoPass
    \/ FifoReturn

SpecFIFO == InitFIFO /\ [][NextFIFO]_vars

\* schedule() is synchronous: every pass of its loop is taken
FairSpecFIFO == InitFIFO /\ [][NextFIFO]_vars /\ WF_vars(NextFIFO)

\* every step of run() is eventually taken: the engine runs the synchronous
\* steps, and the timer of the yield fires
FairSpec == Init /\ [][Next]_vars /\ WF_vars(Next)

(***************************************************************************)
(* Runs of the genetic scheduler on other inputs.                          *)
(***************************************************************************)
GaStart ==
    /\ FifoIdle
    /\ heap = <<>>
    /\ population = <<>>
    /\ bestSolution = NoIndividual
    /\ lastBestFitness = -1
    /\ generationsWithoutImprovement = 0
    /\ generation = 0
    /\ g = 0
    /\ endChunk = 0
    /\ newPopulation = <<>>
    /\ offspring1 = NoIndividual
    /\ offspring2 = NoIndividual
    /\ pc = "start"
    /\ lastReport = NoReport
    /\ reportCount = 0
    /\ completeCount = 0
    /\ stopSeen = FALSE
    /\ reportsAfterStop = 0
    /\ crossed = FALSE
    /\ mutated = FALSE
    /\ eliteSnapshot = <<>>
    /\ sinceYield = 0

\* Runs given an empty task list, a populationSize of 0 or a maxGenerations of
\* 0, beside runs of one task.  The empty list is followed for populations
\* that do not breed (populationSize <= 1).
InitConfig ==
    /\ \E n \in 0..1 : tasks \in TaskLists(n)
    /\ params \in [populationSize : 0..2,
                    maxGenerations : 0..ShortGenerations,
                    crossoverRate : {800},
                    mutationRate : {10},
                    makeSpanWeight : {1},
                    idleDistanceWeight : {1}]
    /\ Len(tasks) = 0 => params.populationSize <= 1
    /\ GaStart

NextConfig ==
    \/ InitializeThrows
    \/ Next

SpecConfig == InitConfig /\ [][NextConfig]_vars

\* The elites of the first generation, for populations of up to MaxPopulation.
InitElites ==
    /\ tasks \in TaskLists(1)
    /\ params \in [populationSize : 1..MaxPopulation,
                    maxGenerations : {1},
                    crossoverRate : {800},
                    mutationRate : {10},
                    makeSpanWeight : {1},
                    idleDistanceWeight : {1}]
    /\ GaStart

NextElites ==
    \/ Initialize
    \/ ChunkStart
    \/ BeginGeneration

SpecElites == InitElites /\ [][NextElites]_vars

\* Runs on lists of ChunkTaskCounts tasks of one type with a population of
\* one, beside runs of one task: the chunk sizes of the constructor.
LongTaskLists == { [i \in 1..n |-> Task(i, ty)] : n \in ChunkTaskCounts, ty \in TaskType }

InitChunks ==
    /\ tasks \in TaskLists(1) \cup LongTaskLists
    /\ params \in Params
    /\ Len(tasks) > 1 => params.populationSize = 1
    /\ GaStart

SpecChunks == InitChunks /\ [][Next]_vars

\* Runs of one generation with a population of TournamentPopulation on two
\* tasks of one type: the while loop of createNewGeneration is entered more
\* than once.
InitTournament ==
    /\ tasks \in { [i \in 1..2 |-> Task(i, ty)] : ty \in TaskType }
    /\ params \in [populationSize : {TournamentPopulation},
                    maxGenerations : {1},
                    crossoverRate : {800},
                    mutationRate : {10},
                    makeSpanWeight : {1},
                    idleDistanceWeight : {1}]
    /\ GaStart

SpecTournament == InitTournament /\ [][Next]_vars

\* schedule() called MaxCalls times on one FIFOScheduler
NextTwice ==
    \/ FifoPass
    \/ FifoReturn
    \/ ScheduleAgain

SpecTwice == InitFIFO /\ [][NextTwice]_vars

(***************************************************************************)
(* The Simulator: a solution is made active, evaluated, and replayed on a  *)
(* fresh carrier.                                                          *)
(***************************************************************************)
\* runFIFOScheduler (lines 108-139) under "fifo"; the onGenerationComplete
\* handler (line 190-192) under "ga", which is handed some order of the tasks
SetActiveSolution ==
    /\ spc = "idle"
    /\ activeSolution' \in IF schedulingMethod = "fifo" THEN {schedule(tasks)}
                                                       ELSE Shuffles(tasks)
    /\ spc' = "scheduled"
    /\ UNCHANGED <<tasks, tasksCopy, result, lastGroup, slotTrace, passes, fpc, returned,
                   previous, calls, schedulingMethod, metrics, amr, simulationStep,
                   unhandled, auxVars, gaVars>>

\* the evaluator of each scheduler, given the active solution
Evaluate ==
    /\ spc = "scheduled"
    /\ metrics' = [fifo |-> calculateMetrics(activeSolution),
                   ga |-> calculateFitness(activeSolution)]
    /\ spc' = "evaluated"
    /\ UNCHANGED <<tasks, tasksCopy, result, lastGroup, slotTrace, passes, fpc, returned,
                   previous, calls, schedulingMethod, activeSolution, amr, simulationStep,
                   unhandled, auxVars, gaVars>>

\* simulateSolution, lines 244-253
simulateSolution ==
    /\ spc = "evaluated"
    /\ Len(activeSolution) # 0
    /\ simulationStep' = 0
    /\ amr' = NewAMR
    /\ spc' = "simulating"
    /\ UNCHANGED <<tasks, tasksCopy, result, lastGroup, slotTrace, passes, fpc, returned,
                   previous, calls, schedulingMethod, activeSolution, metrics,
                   unhandled, auxVars, gaVars>>

\* new AMR({ ...amr }) keeps the storageSlots array it is given (models.ts:56),
\* so previousAmr, updatedAmr and amr hold one array, and executeTask assigns
\* its elements: what previousAmr.storageSlots holds once updatedAmr has run
\* the task
previousAmrSlots(slotsBefore, slotsAfter) == slotsAfter

\* DataLogger.logTaskExecution: the record pushed (the slots are copied then)
logTaskExecution(task, executionOrder, amrBefore, amrAfter) ==
    [taskId |-> task.id,
     executionOrder |-> executionOrder,
     amrPositionBefore |-> amrBefore.position,
     amrPositionAfter |-> amrAfter.position,
     storageSlotsBeforeExecution |-> amrBefore.storageSlots,
     storageSlotsAfterExecution |-> amrAfter.storageSlots]

\* the timer of the simulation-step effect, lines 256-315
SimulationStep ==
    /\ spc = "simulating"
    /\ simulationStep < Len(activeSolution)
    /\ \E currentTask \in {activeSolution[simulationStep + 1]} :
       \E updatedAmr \in {executeTask(amr, currentTask)} :
         /\ amr' = updatedAmr
         /\ unhandled' = IF canHandleTask(amr, currentTask) THEN unhandled ELSE unhandled + 1
         /\ UNCHANGED <<generationLogs, zeroDivisions>>
         /\ taskExecutionRecords' =
               Append(taskExecutionRecords,
                      logTaskExecution(currentTask, simulationStep + 1,
                          [position |-> amr.position,
                           storageSlots |-> previousAmrSlots(amr.storageSlots,
                                                             updatedAmr.storageSlots)],
                          updatedAmr))
    /\ simulationStep' = simulationStep + 1
    /\ spc' = IF simulationStep + 1 >= Len(activeSolution) THEN "finished" ELSE "simulating"
    /\ UNCHANGED <<tasks, tasksCopy, result, lastGroup, slotTrace, passes, fpc, returned,
                   previous, calls, schedulingMethod, activeSolution, metrics, genVars, taskVars, runVars,
                   gaVars>>

InitSim ==
    /\ \E n \in 0..MaxFifoLen : tasks \in TaskLists(n)
    /\ tasksCopy = <<>>
    /\ result = <<>>
    /\ lastGroup = <<>>
    /\ slotTrace = <<>>
    /\ passes = 0
    /\ fpc = "idle"
    /\ returned = <<>>
    /\ previous = <<>>
    /\ calls = 0
    /\ schedulingMethod \in {"fifo", "ga"}
    /\ activeSolution = <<>>
    /\ metrics = [fifo |-> NoMetrics, ga |-> NoMetrics]
    /\ amr = NewAMR
    /\ simulationStep = 0
    /\ unhandled = 0
    /\ spc = "idle"
    /\ AuxIdle
    /\ GaIdle

NextSim ==
    \/ SetActiveSolution
    \/ Evaluate
    \/ simulateSolution
    \/ SimulationStep

SpecSim == InitSim /\ [][NextSim]_vars

(***************************************************************************)
(* createRandomChromosome called on its own, on the task lists of the FIFO *)
(* scheduler.                                                              *)
(***************************************************************************)
\* line 245: const shuffledTasks = [...this.tasks].sort(() => Math.random() - 0.5)
ShuffleTasks ==
    /\ cpc = "idle"
    /\ shuffledOrder' \in Shuffles(tasks)
    /\ cpc' = "shuffled"
    /\ UNCHANGED <<tasks, tasksCopy, result, lastGroup, slotTrace, passes, fpc, returned,
                   previous, calls, schedulingMethod, activeSolution, metrics, amr,
                   simulationStep, unhandled, spc, flatChromosome, logVars, taskVars, runVars,
                   gaVars>>

\* lines 248-285: the groups, and the flat array returned
MakeChromosome ==
    /\ cpc = "shuffled"
    /\ flatChromosome' = createRandomChromosome(shuffledOrder)
    /\ cpc' = "made"
    /\ UNCHANGED <<tasks, tasksCopy, result, lastGroup, slotTrace, passes, fpc, returned,
                   previous, calls, schedulingMethod, activeSolution, metrics, amr,
                   simulationStep, unhandled, spc, shuffledOrder, logVars, taskVars, runVars,
                   gaVars>>

InitChromosome ==
    /\ \E n \in 0..MaxFifoLen : tasks \in TaskLists(n)
    /\ FifoIdle
    /\ GaIdle

NextChromosome ==
    \/ ShuffleTasks
    \/ MakeChromosome

SpecChromosome == InitChromosome /\ [][NextChromosome]_vars

(***************************************************************************)
(* DataLogger.logGeneration.  A JavaScript division by 0 gives NaN or an   *)
(* infinity, and arithmetic on those gives NaN or an infinity again.       *)
(***************************************************************************)
\* the value of a statistic: a number in Scale units, NaN, an infinity, or
\* undefined when the field is not set
Finite(n) == [kind |-> "number", value |-> n]
NaN == [kind |-> "NaN", value |-> 0]
Infinity == [kind |-> "Infinity", value |-> 0]
NegInfinity == [kind |-> "-Infinity", value |-> 0]
NotSet == [kind |-> "undefined", value |-> 0]

\* a / b of two numbers in Scale units
Quotient(a, b) ==
    IF b # 0 THEN Finite((a * Scale) \div b)
    ELSE IF a = 0 THEN NaN ELSE IF a > 0 THEN Infinity ELSE NegInfinity

\* x * 100
Percent(x) == IF x.kind = "number" THEN Finite(x.value * 100) ELSE x

\* x / n for a count n that is not 0
Per(x, n) == IF x.kind = "number" THEN Finite(x.value \div n) ELSE x

\* the best fitness values logged: 0, and two that differ
LoggedFitness == {0, Scale, 2 * Scale}

\* logGeneration, lines 242-259: the statistics of the generation logged
\* after previousGenerations (the parameter fields of lines 233-239 are not
\* followed)
GenerationStatistics(previousGenerations, gen, bestFitness) ==
    LET previousGeneration == previousGenerations[Len(previousGenerations)]
        firstGeneration == previousGenerations[1]
    IN [generation |-> gen,
        bestFitness |-> bestFitness,
        improvementFromPrevious |->
            IF Len(previousGenerations) > 0
            THEN Percent(Quotient(previousGeneration.bestFitness - bestFitness,
                                  previousGeneration.bestFitness))
            ELSE NotSet,
        convergenceRate |->
            IF Len(previousGenerations) > 0 /\ gen > 1
            THEN Per(Percent(Quotient(firstGeneration.bestFitness - bestFitness,
                                      firstGeneration.bestFitness)),
                     IF gen - 1 # 0 THEN gen - 1 ELSE 1)
            ELSE NotSet]

\* the divisions of lines 247, 254 and 255 made with a denominator of 0
ZeroDenominators(previousGenerations, gen) ==
    IF Len(previousGenerations) = 0 THEN 0
    ELSE (IF previousGenerations[Len(previousGenerations)].bestFitness = 0 THEN 1 ELSE 0)
         + (IF gen > 1 /\ previousGenerations[1].bestFitness = 0 THEN 1 ELSE 0)
         + (IF gen > 1 /\ (IF gen - 1 # 0 THEN gen - 1 ELSE 1) = 0
                THEN 1 ELSE 0)

\* dataLogger.logGeneration(sessionId, generationLog), lines 226-262, for the
\* generation that follows the ones logged
logGeneration ==
    /\ Len(generationLogs) < MaxLogged
    /\ \E bestFitness \in LoggedFitness :
       \E gen \in {Len(generationLogs)} :
         /\ generationLogs' =
               Append(generationLogs,
                      GenerationStatistics(generationLogs, gen, bestFitness))
         /\ zeroDivisions' = zeroDivisions + ZeroDenominators(generationLogs, gen)
    /\ UNCHANGED <<tasks, tasksCopy, result, lastGroup, slotTrace, passes, fpc, returned,
                   previous, calls, schedulingMethod, activeSolution, metrics, amr,
                   simulationStep, unhandled, spc, genVars, taskExecutionRecords, taskVars, runVars,
                   gaVars>>

InitLogger ==
    /\ tasks = <<>>
    /\ FifoIdle
    /\ GaIdle

SpecLogger == InitLogger /\ [][logGeneration]_vars

(***************************************************************************)
(* generateRandomTasks.  Math.random() is an input: a stream of its        *)
(* values, in thousandths, one record for each iteration of the loop (rx   *)
(* and ry for the position; rtype and rtime, drawn only when the position  *)
(* is kept).  A stream is read cyclically.                                 *)
(***************************************************************************)
MaxTaskCount == 30      \* Simulator.generateTasks: Math.min(count, 30)
GridWidth == 12
GridHeight == 8

\* the least value of Math.random(), in thousandths, for which
\* Math.floor(Math.random() * n) is k
DrawFor(k, n) == (k * 1000 + n - 1) \div n

StreamOf(cells) ==
    [n \in 1..Len(cells) |->
        [rx |-> DrawFor(cells[n][1], GridWidth), ry |-> DrawFor(cells[n][2], GridHeight),
         rtype |-> (n * 370) % 1000, rtime |-> (n * 610) % 1000]]

\* every cell of the area, row by row
GridCells == [n \in 1..(GridWidth * GridHeight) |->
                 <<(n - 1) % GridWidth, (n - 1) \div GridWidth>>]

\* the middle cells of the 3 x 3 blocks of the area, row by row
BlockCells == [n \in 1..((GridWidth \div 3) * ((GridHeight + 2) \div 3)) |->
                  <<1 + 3 * ((n - 1) % (GridWidth \div 3)),
                    Min(1 + 3 * ((n - 1) \div (GridWidth \div 3)), GridHeight - 1)>>]

RandomStreams == {StreamOf(GridCells), StreamOf(BlockCells)}

Abs(n) == IF n < 0 THEN -n ELSE n

\* lines 9-12
DrawnPosition(draw) ==
    [x |-> 3 + (draw.rx * GridWidth) \div 1000, y |-> 3 + (draw.ry * GridHeight) \div 1000]

\* line 16: tasks.some(...)
TooClose(taskList, position) ==
    \E k \in 1..Len(taskList) :
        /\ Abs(taskList[k].position.x - position.x) < 2
        /\ Abs(taskList[k].position.y - position.y) < 2

\* lines 24-35
DrawnType(draw) ==
    IF draw.rtype < 500 THEN DELIVERY ELSE IF draw.rtype < 800 THEN PICKUP ELSE PICKUP_DELIVERY
DrawnProcessingTime(draw) == 3 + (draw.rtime * 8) \div 1000

NextDraw == randomStream[(drawn % Len(randomStream)) + 1]

\* lines 15-20: the position is too close to a task; i--, continue, and the
\* i++ of the for statement
RetryPosition ==
    /\ tpc = "loop"
    /\ loopIndex < count
    /\ TooClose(generated, DrawnPosition(NextDraw))
    /\ drawn' = (drawn % Len(randomStream)) + 1
    /\ loopIndex' = (loopIndex - 1) + 1
    /\ UNCHANGED <<tasks, tasksCopy, result, lastGroup, slotTrace, passes, fpc, returned,
                   previous, calls, schedulingMethod, activeSolution, metrics, amr,
                   simulationStep, unhandled, spc, genVars, logVars, runVars, count, randomStream,
                   generated, tpc, gaVars>>

\* lines 22-45: the position is kept; the task is pushed with id i + 1
PushTask ==
    /\ tpc = "loop"
    /\ loopIndex < count
    /\ ~TooClose(generated, DrawnPosition(NextDraw))
    /\ generated' = Append(generated,
                           [id |-> loopIndex + 1, type |-> DrawnType(NextDraw),
                            position |-> DrawnPosition(NextDraw),
                            processingTime |-> DrawnProcessingTime(NextDraw)])
    /\ drawn' = (drawn % Len(randomStream)) + 1
    /\ loopIndex' = loopIndex + 1
    /\ UNCHANGED <<tasks, tasksCopy, result, lastGroup, slotTrace, passes, fpc, returned,
                   previous, calls, schedulingMethod, activeSolution, metrics, amr,
                   simulationStep, unhandled, spc, genVars, logVars, runVars, count, randomStream,
                   tpc, gaVars>>

\* line 48: the for test fails; return tasks
ReturnTasks ==
    /\ tpc = "loop"
    /\ ~(loopIndex < count)
    /\ tpc' = "returned"
    /\ UNCHANGED <<tasks, tasksCopy, result, lastGroup, slotTrace, passes, fpc, returned,
                   previous, calls, schedulingMethod, activeSolution, metrics, amr,
                   simulationStep, unhandled, spc, genVars, logVars, runVars, count, randomStream,
                   drawn, generated, loopIndex, gaVars>>

InitTasks ==
    /\ tasks = <<>>
    /\ tasksCopy = <<>>
    /\ result = <<>>
    /\ lastGroup = <<>>
    /\ slotTrace = <<>>
    /\ passes = 0
    /\ fpc = "idle"
    /\ returned = <<>>
    /\ previous = <<>>
    /\ calls = 0
    /\ schedulingMethod = "fifo"
    /\ activeSolution = <<>>
    /\ metrics = [fifo |-> NoMetrics, ga |-> NoMetrics]
    /\ amr = NewAMR
    /\ simulationStep = 0
    /\ unhandled = 0
    /\ spc = "idle"
    /\ shuffledOrder = <<>>
    /\ flatChromosome = <<>>
    /\ cpc = "idle"
    /\ taskExecutionRecords = <<>>
    /\ generationLogs = <<>>
    /\ zeroDivisions = 0
    /\ count \in 1..MaxTaskCount
    /\ randomStream \in RandomStreams
    /\ drawn = 0
    /\ generated = <<>>
    /\ loopIndex = 0
    /\ tpc = "loop"
    /\ closureState = StateAfterGenerateTasks
    /\ algorithmLogs = <<>>
    /\ GaIdle

NextTasks ==
    \/ RetryPosition
    \/ PushTask
    \/ ReturnTasks

\* the loop is synchronous: every iteration is taken
FairSpecTasks == InitTasks /\ [][NextTasks]_vars /\ WF_vars(NextTasks)

(***************************************************************************)
(* The properties.                                                         *)
(***************************************************************************)
\* the objective of an ordering, with the run's weights
Objective(ordering) ==
    LET m == calculateFitness(ordering)
    IN params.makeSpanWeight * m.makespan + params.idleDistanceWeight * m.idleDistance

Individuals ==
    { population[i] : i \in 1..Len(population) }
        \cup { newPopulation[i] : i \in 1..Len(newPopulation) }
        \cup ({offspring1, offspring2, bestSolution} \ {NoIndividual})

\* C1: at every point of a run (after initialization, after crossover, after
\* mutation, in every generation) the chromosome of every individual is a
\* permutation of the input tasks: same length, every task exactly once.
C1_ChromosomesArePermutations ==
    \A ind \in Individuals : IsPermutationOf(TasksOf(heap[ind.chromosome]), tasks)

\* C1 witness: an offspring made by crossover of a list of two tasks has been
\* changed by mutate
C1_Witness ==
    /\ pc = "mutate2"
    /\ crossed
    /\ mutated
    /\ Len(tasks) > 1

\* C2: once generationsWithoutImprovement has reached earlyStopGenerations, no
\* further generation is reported.
C2_NoReportAfterEarlyStop == reportsAfterStop = 0

\* C3: the fitness, makespan and idleDistance passed to onGenerationComplete
\* are those of the chromosome passed with them, as it is at the call.
C3_ReportMatchesChromosome ==
    reportCount > 0 =>
        LET m == calculateFitness(lastReport.bestSolution)
        IN /\ lastReport.makespan = m.makespan
           /\ lastReport.idleDistance = m.idleDistance
           /\ lastReport.fitness = Objective(lastReport.bestSolution)

\* C4: the fitness passed to onGenerationComplete never increases from one
\* call to the next.
C4_ReportedFitnessNeverIncreases ==
    [][(reportCount > 0 /\ reportCount' > reportCount)
          => lastReport'.fitness <= lastReport.fitness]_vars

\* C4 witness: a generation after the initial one was reported with a fitness
\* that improved on the tracked best
C4_Witness ==
    /\ reportCount >= 2
    /\ lastReport.generation >= 1
    /\ generationsWithoutImprovement = 0
    /\ pc \in {"for", "chunkEnd"}

\* C5: with every step eventually taken, onComplete is eventually called, and
\* onGenerationComplete is called at most maxGenerations + 1 times.
C5_Terminates ==
    /\ <>(completeCount = 1)
    /\ [](reportCount <= params.maxGenerations + 1)

\* C5 witness: a run has completed after maxGenerations + 1 reports
C5_Witness ==
    /\ pc = "done"
    /\ completeCount = 1
    /\ reportCount = params.maxGenerations + 1
    /\ params.maxGenerations > processingChunkSize(Len(tasks))

\* C6: onComplete is called exactly once in a run, at its end, and no
\* onGenerationComplete call follows it.
C6_CompleteOnce ==
    /\ [](completeCount = IF pc = "done" THEN 1 ELSE 0)
    /\ [][completeCount > 0 => reportCount' = reportCount]_vars

\* C6 witness: a run that yielded more than once has ended
C6_Witness ==
    /\ pc = "done"
    /\ completeCount = 1
    /\ reportCount > 2 * processingChunkSize(Len(tasks))

\* C7: the generation indices passed to onGenerationComplete are 0, 1, 2, ...
\* without a gap, so the number of calls is the last index + 1.
C7_IndicesContiguous == reportCount = lastReport.generation + 1

\* C8: when a run has completed, the last reported fitness is at most the
\* objective of the ordering FIFOScheduler.schedule gives for the same tasks.
C8_NoWorseThanFifo ==
    pc = "done" => lastReport.fitness <= Objective(schedule(tasks))

\* C9: schedule() returns a permutation of its input.
C9_FifoReturnsPermutation ==
    fpc = "done" => IsPermutationOf(returned, tasks)

\* C9 witness: schedule() has returned a list of MaxFifoLen tasks in an order
\* other than the arrival order
C9_Witness ==
    /\ fpc = "done"
    /\ Len(tasks) >= 5
    /\ returned # tasks

\* C10: in every group, slotsUsed stays in 0..4 over the admissions, and a
\* PICKUP_DELIVERY task is admitted only while slotsUsed < 3.
C10_GroupCapacity ==
    \A k \in 1..Len(slotTrace) :
        /\ slotTrace[k][2] \in 0..4
        /\ slotTrace[k][3] \in 0..4
        /\ slotTrace[k][1] = PICKUP_DELIVERY => slotTrace[k][2] < 3

\* C10 witness: a pass admitted a PICKUP while slotsUsed was 0, filled the four
\* slots, and passed over a PICKUP_DELIVERY that arrived before a task it admitted
C10_Witness ==
    /\ \E k \in 1..Len(slotTrace) : slotTrace[k] = <<PICKUP, 0, 0>>
    /\ \E k \in 1..Len(slotTrace) : slotTrace[k][3] = 4
    /\ \E k \in 1..Len(tasksCopy), j \in 1..Len(lastGroup) :
          /\ tasksCopy[k].type = PICKUP_DELIVERY
          /\ tasksCopy[k].id < lastGroup[j].id

\* C11: when the ordering schedule() returned is replayed on a fresh carrier,
\* canHandleTask is true just before every task is executed.
C11_FifoFeasible == schedulingMethod = "fifo" => unhandled = 0

Slots == { amr.storageSlots[i] : i \in 1..Len(amr.storageSlots) }

\* C16: after any sequence of executeTask calls on a carrier made with the
\* default slots there are exactly 4 slots, 0..4 of them occupied; an occupied
\* slot carries a task id and a task type, an empty slot carries neither.
C16_CarrierSlots ==
    /\ Len(amr.storageSlots) = 4
    /\ occupiedSlots(amr) \in 0..4
    /\ \A slot \in Slots :
          IF slot.isOccupied
          THEN slot.taskId \in { tasks[i].id : i \in 1..Len(tasks) }
                 /\ slot.taskType \in TaskType
          ELSE slot.taskId = Null /\ slot.taskType = Undefined

\* C16 witness: a replay has ended with three slots occupied, one of them by a
\* PICKUP_DELIVERY task, and one empty, after a PICKUP had freed a slot
C16_Witness ==
    /\ spc = "finished"
    /\ occupiedSlots(amr) = 3
    /\ \E slot \in Slots : slot.taskType = PICKUP_DELIVERY
    /\ \E k \in 2..Len(activeSolution) : activeSolution[k].type = PICKUP

MetricsKnown == spc \in {"evaluated", "simulating", "finished"}

\* C17: for every task sequence, calculateMetrics and calculateFitness return
\* the same makespan and idleDistance.
C17_SameObjective == MetricsKnown => metrics.fifo = metrics.ga

\* C17 witness: a sequence of three or more tasks with a DELIVERY and another
\* type has been evaluated
C17_Witness ==
    /\ MetricsKnown
    /\ Len(activeSolution) >= 3
    /\ \E k \in 1..Len(activeSolution) : activeSolution[k].type = DELIVERY
    /\ \E k \in 1..Len(activeSolution) : activeSolution[k].type # DELIVERY
    /\ metrics.ga.makespan > 0

\* the travel leg that ends at the k-th task of a sequence
Leg(seq, k) ==
    Distance(seq[k].position, IF k = 1 THEN HomePosition ELSE seq[k - 1].position)

RECURSIVE SumOver(_, _)
SumOver(f, n) == IF n = 0 THEN 0 ELSE f[n] + SumOver(f, n - 1)

TravelSum(seq) == SumOver([k \in 1..Len(seq) |-> Leg(seq, k)], Len(seq))
ProcessingSum(seq) == SumOver([k \in 1..Len(seq) |-> seq[k].processingTime * Scale], Len(seq))
DeliveryLegSum(seq) ==
    SumOver([k \in 1..Len(seq) |-> IF seq[k].type = DELIVERY THEN Leg(seq, k) ELSE 0], Len(seq))

\* C18: the makespan of a sequence is the sum of its travel legs (home to the
\* first task, then task to task) plus the sum of its processing times; its
\* idleDistance is the sum of the legs that end at a DELIVERY task.
C18_EvaluatorSums ==
    MetricsKnown =>
        \A m \in {metrics.fifo, metrics.ga} :
            /\ m.makespan = TravelSum(activeSolution) + ProcessingSum(activeSolution)
            /\ m.idleDistance = DeliveryLegSum(activeSolution)

\* C18 witness: an evaluated sequence has a DELIVERY leg and a leg of non-zero
\* length to a PICKUP or PICKUP_DELIVERY task
C18_Witness ==
    /\ MetricsKnown
    /\ metrics.fifo.idleDistance > 0
    /\ \E k \in 1..Len(activeSolution) :
          activeSolution[k].type # DELIVERY /\ Leg(activeSolution, k) > 0
    /\ metrics.fifo.idleDistance < TravelSum(activeSolution)

Misconfigured ==
    Len(tasks) = 0 \/ params.populationSize <= 0 \/ params.maxGenerations <= 0

C12_ConfigErrorsFailFast ==
    Misconfigured =>
        /\ pc \in {"start", "error"}
        /\ population = <<>>
        /\ reportCount = 0
        /\ completeCount = 0

\* C13: when a new population is about to be evaluated, each elite in it has
\* the order of tasks, and so the fitness, it had when it was selected.
C13_ElitesUnchanged ==
    (pc = "fill" /\ Len(newPopulation) >= params.populationSize) =>
        \A i \in 1..Len(eliteSnapshot) :
            /\ heap[newPopulation[i].chromosome] = eliteSnapshot[i].chromosome
            /\ Evaluated(newPopulation[i], heap).fitness = eliteSnapshot[i].fitness

\* C14: the number of elites put in a new population is ceil(0.1 * populationSize),
\* and at least 1.
C14_EliteCount ==
    pc = "fill" =>
        Len(newPopulation) = Max(1, (params.populationSize + 9) \div 10)

\* C15: after initialization and after every generation the population holds
\* exactly populationSize individuals.
C15_PopulationSize ==
    pc \notin {"idle", "start", "error"} => Len(population) = params.populationSize

\* C15 witness: a generation of a population of two, in which the second
\* offspring of the pair was not pushed, has replaced the population
C15_Witness ==
    /\ params.populationSize = 2
    /\ reportCount >= 2
    /\ pc \in {"for", "chunkEnd"}
    /\ Len(population) = 2

\* the chunk sizes as the claim C19 states them
ChunkLimit == IF Len(tasks) > 20 THEN 3 ELSE IF Len(tasks) > 15 THEN 4 ELSE 5

\* a step taken while run() is suspended resumes the loop and changes nothing else
SuspendedStep ==
    pc = "yield" =>
        /\ pc' = "loop"
        /\ sinceYield' = 0
        /\ population' = population
        /\ newPopulation' = newPopulation
        /\ reportCount' = reportCount
        /\ generation' = generation

\* C19: between two suspension points at most processingChunkSize generations
\* are computed (3 for more than 20 tasks, 4 for more than 15, otherwise 5);
\* while run() is suspended nothing of the run changes, and the only step it
\* takes from there is the resumption of the loop.
C19_YieldsEveryChunk ==
    /\ [](sinceYield <= ChunkLimit)
    /\ [][SuspendedStep]_vars
    /\ [][sinceYield' > sinceYield => (sinceYield' = sinceYield + 1 /\ pc # "yield")]_vars

\* C19 witness: a run on more than 20 tasks has resumed after a chunk of 3
\* generations and has computed the first generation of its second chunk
C19_Witness ==
    /\ Len(tasks) > 20
    /\ pc = "for"
    /\ generation = 3
    /\ reportCount = 5
    /\ sinceYield = 1

\* C21: whenever tournamentSelection is about to sample the population, every
\* individual of the population has the fitness, makespan and idleDistance of
\* the chromosome it holds at that moment.
C21_TournamentSeesEvaluated ==
    (pc = "fill" /\ Len(newPopulation) < params.populationSize) =>
        \A i \in 1..Len(population) : population[i] = Evaluated(population[i], heap)

\* C22: for every shuffled order of the tasks, createRandomChromosome returns
\* the ordering FIFOScheduler.schedule returns when given that order.
C22_ChromosomeIsFifoOrder ==
    cpc = "made" => flatChromosome = schedule(shuffledOrder)

\* the place of a task in a list of distinct tasks
PosIn(seq, task) == CHOOSE i \in 1..Len(seq) : seq[i] = task

\* slotsUsed when the scan of a pass came to place p of the list it began with:
\* the value left by the last admission made before that place
SlotsWhenMet(before, group, trace, p) ==
    LET n == Cardinality({ j \in 1..Len(group) : PosIn(before, group[j]) < p })
    IN IF n = 0 THEN 0 ELSE trace[n][3]

\* what one pass did, given the list it began with and what it left
PassAsymmetry(before, group, trace, remaining) ==
    /\ \A i, j \in 1..Len(group) : i < j => PosIn(before, group[i]) < PosIn(before, group[j])
    /\ \A k \in 1..Len(trace) : trace[k][2] < 4
    /\ \A k \in 1..Len(remaining) :
          LET met == SlotsWhenMet(before, group, trace, PosIn(before, remaining[k]))
          IN IF remaining[k].type = PICKUP_DELIVERY THEN met >= 3 ELSE met = 4

PassStep ==
    (fpc = "loop" /\ Len(tasksCopy) > 0) =>
        PassAsymmetry(tasksCopy, lastGroup', slotTrace', tasksCopy')

\* C23: in one pass the group is admitted in arrival order; a PICKUP_DELIVERY
\* task is left in the remaining list only if slotsUsed was 3 or more when the
\* scan came to it, and a DELIVERY or PICKUP task only if slotsUsed was 4, so a
\* DELIVERY or PICKUP that follows a skipped PICKUP_DELIVERY is admitted ahead
\* of it while slotsUsed < 4; no task is admitted once slotsUsed is 4.
C23_SkipStopAsymmetry == [][PassStep]_vars

\* C23 witness: a pass filled the four slots, having admitted a task that
\* arrived after a PICKUP_DELIVERY it left, and left a PICKUP behind
C23_Witness ==
    /\ passes = 1
    /\ Len(slotTrace) > 0
    /\ slotTrace[Len(slotTrace)][3] = 4
    /\ \E k \in 1..Len(tasksCopy), j \in 1..Len(lastGroup) :
          /\ tasksCopy[k].type = PICKUP_DELIVERY
          /\ PosIn(tasks, tasksCopy[k]) < PosIn(tasks, lastGroup[j])
    /\ \E k \in 1..Len(tasksCopy) : tasksCopy[k].type = PICKUP

\* the lowest index of a set of slot indices
Lowest(indices) == CHOOSE i \in indices : \A j \in indices : i <= j

OccupiedAt(slots) == { i \in 1..Len(slots) : slots[i].isOccupied }

\* the slots a PICKUP_DELIVERY task is claimed to leave, given the slots before
PickupDeliverySlots(slots, task) ==
    IF OccupiedAt(slots) = {} THEN slots
    ELSE LET freed == [slots EXCEPT ![Lowest(OccupiedAt(slots))] = EmptySlot]
         IN [freed EXCEPT ![Lowest((1..Len(freed)) \ OccupiedAt(freed))] =
                [isOccupied |-> TRUE, taskId |-> task.id, taskType |-> task.type]]

PickupDeliveryStep ==
    (spc = "simulating" /\ simulationStep < Len(activeSolution)
       /\ activeSolution[simulationStep + 1].type = PICKUP_DELIVERY) =>
        /\ occupiedSlots(amr') = occupiedSlots(amr)
        /\ amr'.storageSlots = PickupDeliverySlots(amr.storageSlots,
                                                   activeSolution[simulationStep + 1])
        /\ amr'.position = activeSolution[simulationStep + 1].position

\* C24: executeTask for a PICKUP_DELIVERY task leaves the number of occupied
\* slots unchanged: with a slot occupied, the first occupied slot is freed and
\* the first empty slot then takes the task's id and type; with none occupied
\* the slots are left as they were; the carrier moves to the task's position.
C24_PickupDeliveryKeepsCount == [][PickupDeliveryStep]_vars

\* C24 witness: a PICKUP_DELIVERY task was executed with two or more slots
\* occupied and now holds a slot
C24_Witness ==
    /\ spc \in {"simulating", "finished"}
    /\ simulationStep >= 3
    /\ activeSolution[simulationStep].type = PICKUP_DELIVERY
    /\ occupiedSlots(amr) >= 2
    /\ \E slot \in Slots : slot.taskId = activeSolution[simulationStep].id

\* the replay step records the task it executed
RecordedStep ==
    Len(taskExecutionRecords') > Len(taskExecutionRecords) =>
        LET record == taskExecutionRecords'[Len(taskExecutionRecords')]
        IN /\ record.storageSlotsBeforeExecution = amr.storageSlots
           /\ record.storageSlotsAfterExecution = amr'.storageSlots
           /\ amr'.storageSlots # amr.storageSlots =>
                 record.storageSlotsBeforeExecution # record.storageSlotsAfterExecution

\* C25: each record of a replayed task holds the carrier's slots as they were
\* before executeTask ran for it and as they were after, so the two differ
\* whenever the task changed a slot.
C25_TrueSnapshots == [][RecordedStep]_vars

\* C26: logGeneration makes no division by a denominator of 0, whatever the
\* generations logged, a best fitness of 0 among them.
C26_NoDivisionByZero ==
    /\ zeroDivisions = 0
    /\ \A k \in 1..Len(generationLogs) :
          /\ generationLogs[k].improvementFromPrevious.kind \in {"number", "undefined"}
          /\ generationLogs[k].convergenceRate.kind \in {"number", "undefined"}

\* a pass of the while loop admits at least one task
AdmittingPass == passes' > passes => Len(lastGroup') >= 1

\* C27: every pass of schedule() admits at least one task, so schedule()
\* returns only when no task remains, after at most n passes for n tasks, and
\* it does return.
C27_FifoTerminates ==
    /\ [][AdmittingPass]_vars
    /\ [](passes <= Len(tasks))
    /\ [](fpc = "done" => Len(tasksCopy) = 0)
    /\ <>(fpc = "done")

\* C27 witness: schedule() has returned MaxFifoLen tasks after a second pass
\* that began with tasks the first pass had left
C27_Witness ==
    /\ fpc = "done"
    /\ passes >= 2
    /\ Len(returned) = MaxFifoLen
    /\ Len(lastGroup) < MaxFifoLen

\* the task at place j of the input comes before the one at place i in the output
Overtakes(j, i) == PosIn(returned, tasks[j]) < PosIn(returned, tasks[i])

\* C28: in the ordering schedule() returns, two tasks that are not
\* PICKUP_DELIVERY keep their arrival order, and a task that is overtaken by a
\* later arrival is a PICKUP_DELIVERY.
C28_ArrivalOrderKept ==
    fpc = "done" =>
        \A i, j \in 1..Len(tasks) :
            i < j =>
                /\ (tasks[i].type # PICKUP_DELIVERY /\ tasks[j].type # PICKUP_DELIVERY)
                      => ~Overtakes(j, i)
                /\ Overtakes(j, i) => tasks[i].type = PICKUP_DELIVERY

\* C28 witness: schedule() has returned, after two passes, an ordering in
\* which a PICKUP and a DELIVERY overtook a PICKUP_DELIVERY
C28_Witness ==
    /\ fpc = "done"
    /\ passes >= 2
    /\ \E i, j \in 1..Len(tasks) :
          /\ i < j
          /\ tasks[i].type = PICKUP_DELIVERY
          /\ tasks[j].type = PICKUP
          /\ Overtakes(j, i)
          /\ \E k \in 1..Len(tasks) : k > j /\ tasks[k].type = DELIVERY /\ Overtakes(k, i)

\* the positions of the area no task is too close to
AdmissiblePositions ==
    { position \in [x : 3..(2 + GridWidth), y : 3..(2 + GridHeight)] :
        ~TooClose(generated, position) }

\* while a task is still to be placed, some position of the area is admissible
PositionLeft == (tpc = "loop" /\ loopIndex < count) => AdmissiblePositions # {}

\* C29: for every count of 1..30, while generateRandomTasks(count) has a task
\* to place some position of the 12 x 8 area is admissible, and the call
\* returns, with count tasks of ids 1..count.
C29_GenerationTerminates ==
    /\ []PositionLeft
    /\ <>(/\ tpc = "returned"
          /\ Len(generated) = count
          /\ \A k \in 1..Len(generated) : generated[k].id = k)

\* C30: when a GA run completes, the GA entry logAlgorithmResult recorded
\* (solution, makespan, idleDistance, fitness, generations) holds the values
\* handed to the last onGenerationComplete call of the run.
C30_LoggedResultIsLastReport ==
    (pc = "done" /\ reportCount > 0) =>
        /\ Len(algorithmLogs) = 1
        /\ algorithmLogs[1] =
              logAlgorithmResult("GA",
                  [solution |-> lastReport.bestSolution, makespan |-> lastReport.makespan,
                   idleDistance |-> lastReport.idleDistance, fitness |-> lastReport.fitness,
                   generations |-> lastReport.generation])

====
